---- MODULE Spec2Model ----
(***************************************************************************)
(* Model of src/app.py: the Streamlit text-to-SQL page.                    *)
(*                                                                         *)
(*   get_table_metadata   (lines 31-57)   Glue catalog -> metadata map     *)
(*   generate_sql_query   (lines 59-140)  Bedrock completion -> SQL text   *)
(*   execute_sql_query    (lines 142-206) pymssql execution of a statement *)
(*   main                 (lines 208-246) one rerun of the page            *)
(*                                                                         *)
(* Text is modelled as a sequence of one-character strings so that         *)
(* str.strip, str.lower and str.startswith are computed, not assumed.      *)
(* The external services (Glue, Bedrock, pymssql, the Streamlit session)   *)
(* are the environment: every outcome they can produce is a choice.        *)
(***************************************************************************)
EXTENDS Integers, Sequences, FiniteSets, TLC

VARIABLES
    SQL_SERVER_CONN,  \* module-level dict, lines 21-29 (the four values read from the environment)
    pc,               \* position of the single interpreter thread
    caller,           \* who called execute_sql_query: "main", "direct" or "none"
    execute_query,    \* main: the checkbox, line 225
    metadata,         \* st.session_state.metadata as this rerun read it, the metadata argument
    response,         \* generate_sql_query: the body of the model's response
    sql_query,        \* main: value returned by generate_sql_query, line 231
    query,            \* execute_sql_query: the statement
    params,           \* execute_sql_query: the params argument
    conn,             \* the connection of the current call: "none", "open", "closed"
    openConns,        \* number of database connections currently open
    cursorOpen,       \* the cursor of the with-block is open
    column_names,     \* execute_sql_query: line 184
    results,          \* execute_sql_query: results_with_columns, line 190
    exc,              \* exception in flight: the chain of its message parts, <<>> if none
    ret,              \* outcome of the current top-level call
    trace,            \* calls made during the current top-level call, in order
    ui,               \* what Streamlit has rendered during the current rerun, in order
    catalog           \* get_table_metadata: the TableList of the get_tables response

vars == <<SQL_SERVER_CONN, pc, caller, execute_query, metadata, response, sql_query,
          query, params, conn, openConns, cursorOpen, column_names, results, exc,
          ret, trace, ui, catalog>>

(***************************************************************************)
(* Bounds                                                                  *)
(***************************************************************************)
\* longest run of whitespace the model puts around a completion
MaxPad == 1
\* most table descriptors in one catalog response
MaxTables == 2
\* most connection parameters that are missing or empty at once
MaxMissing == 1

(***************************************************************************)
(* Python values                                                           *)
(***************************************************************************)
\* None where a text is expected (no text consists of this one element)
PyNone == <<"<None>">>

\* truthiness of a text-or-None / tuple-or-None value
Truthy(v) == v # PyNone /\ v # <<>>

\* the whitespace str.strip() removes (a sample of Python's whitespace set)
Whitespace == {" ", "\n"}

UpperCase == <<"A","B","C","D","E","F","G","H","I","J","K","L","M",
               "N","O","P","Q","R","S","T","U","V","W","X","Y","Z">>
LowerCase == <<"a","b","c","d","e","f","g","h","i","j","k","l","m",
               "n","o","p","q","r","s","t","u","v","w","x","y","z">>

LowerChar(c) ==
    IF \E i \in 1..26 : UpperCase[i] = c
    THEN LowerCase[CHOOSE i \in 1..26 : UpperCase[i] = c]
    ELSE c

\* str.lower()
Lower(s) == [i \in 1..Len(s) |-> LowerChar(s[i])]

RECURSIVE LStrip(_)
LStrip(s) == IF s # <<>> /\ Head(s) \in Whitespace THEN LStrip(Tail(s)) ELSE s

RECURSIVE RStrip(_)
RStrip(s) ==
    IF s # <<>> /\ s[Len(s)] \in Whitespace THEN RStrip(SubSeq(s, 1, Len(s) - 1)) ELSE s

\* str.strip()
Strip(s) == RStrip(LStrip(s))

\* str.startswith(p)
StartsWith(s, p) == Len(s) >= Len(p) /\ SubSeq(s, 1, Len(p)) = p

EndsWith(s, p) == Len(s) >= Len(p) /\ SubSeq(s, Len(s) - Len(p) + 1, Len(s)) = p

\* number of entries of a call trace that name op
Count(t, op) == Cardinality({i \in 1..Len(t) : t[i].op = op})

\* positions of op in a call trace
Positions(t, op) == {i \in 1..Len(t) : t[i].op = op}

Ev(op, ok) == [op |-> op, ok |-> ok]

(***************************************************************************)
(* The texts the model may complete with                                   *)
(***************************************************************************)
\* the backtick character (written out: a backtick cannot stand in a string here)
Backtick == "<backtick>"

\* the markdown fence of the examples in the prompt, lines 84-86: three backticks
Fence == <<Backtick, Backtick, Backtick>>

\* SELECT 1
SelectStmt == <<"S","E","L","E","C","T"," ","1">>
\* UPDATE t SET x=1
UpdateStmt == <<"U","P","D","A","T","E"," ","t"," ","S","E","T"," ","x","=","1">>
\* Insert t
InsertStmt == <<"I","n","s","e","r","t"," ","t">>
\* delete t
DeleteStmt == <<"d","e","l","e","t","e"," ","t">>
\* exec p
OtherStmt == <<"e","x","e","c"," ","p">>

Statements == {<<>>, SelectStmt, UpdateStmt, InsertStmt, DeleteStmt, OtherStmt}

\* runs of whitespace of length at most n
RECURSIVE Pads(_)
Pads(n) ==
    IF n = 0 THEN {<<>>}
    ELSE Pads(n - 1) \cup {<<w>> \o p : w \in Whitespace, p \in {q \in Pads(n - 1) : Len(q) = n - 1}}

\* a statement fenced the way the examples of the prompt are fenced
Fenced(stmt) == Fence \o <<"\n">> \o stmt \o <<"\n">> \o Fence

\* the completion texts of the model: a statement, bare or fenced, with whitespace around it
Completions ==
    {lead \o body \o trail :
        lead \in Pads(MaxPad), trail \in Pads(MaxPad),
        body \in Statements \cup {Fenced(stmt) : stmt \in Statements}}

\* the text has markdown fencing at its start or at its end
HasFencing(s) == StartsWith(s, Fence) \/ EndsWith(s, Fence)

(***************************************************************************)
(* get_table_metadata, lines 31-57                                         *)
(***************************************************************************)
\* line 41
target_tables == {"xtstock2025"}

TableNames == {"xtstock2025", "XTSTOCK2025", "xtBuyerOrder"}

\* the columns of the StorageDescriptor of a table that has one
SampleColumns ==
    <<[Name |-> "stockqty", Type |-> "int"], [Name |-> "category", Type |-> "string"]>>

\* A table descriptor of the Glue response.  StorageDescriptor and Description
\* are optional members of a Glue table; Name is always there.
TableDescs ==
    {[Name |-> n, hasStorageDescriptor |-> sd,
      Columns |-> IF sd THEN SampleColumns ELSE <<>>, hasDescription |-> d] :
        n \in TableNames, sd \in BOOLEAN, d \in BOOLEAN}

RECURSIVE SeqsUpTo(_, _)
SeqsUpTo(S, n) ==
    IF n = 0 THEN {<<>>}
    ELSE SeqsUpTo(S, n - 1) \cup
         {Append(q, x) : q \in {r \in SeqsUpTo(S, n - 1) : Len(r) = n - 1}, x \in S}

\* the TableList of a get_tables response
TableLists == SeqsUpTo(TableDescs, MaxTables)

\* lines 45-49: the entry stored for a table
TableEntry(t) ==
    [columns      |-> [i \in 1..Len(t.Columns) |-> t.Columns[i].Name],
     description  |-> IF t.hasDescription THEN "described" ELSE "",
     column_types |-> [n \in {t.Columns[i].Name : i \in 1..Len(t.Columns)} |->
                         (CHOOSE c \in {t.Columns[i] : i \in 1..Len(t.Columns)} : c.Name = n).Type]]

\* the loop without its filter: every table of the response is stored
IsTarget_unfiltered(t) == t.Name \in TableNames

\* line 44: the filter of the loop
IsTarget(t) == t.Name \in target_tables

\* lines 43-49: the loop over response['TableList'], from table i on, with the
\* map built so far.  table['StorageDescriptor'] of a target table that has
\* none raises KeyError, which ends the loop.
RECURSIVE BuildMetadata(_, _, _)
BuildMetadata(tables, i, md) ==
    IF i > Len(tables) THEN [raised |-> FALSE, map |-> md]
    ELSE IF ~IsTarget(tables[i]) THEN BuildMetadata(tables, i + 1, md)
    ELSE IF ~tables[i].hasStorageDescriptor THEN [raised |-> TRUE, map |-> md]
    ELSE BuildMetadata(tables, i + 1,
            [n \in DOMAIN md \cup {tables[i].Name} |->
                IF n = tables[i].Name THEN TableEntry(tables[i]) ELSE md[n]])

\* line 40
EmptyMap == [n \in {} |-> n]

(***************************************************************************)
(* Values of the environment                                               *)
(***************************************************************************)
\* os.getenv of an unset variable, lines 23-26
EnvNone == "<None>"

\* what os.getenv may give: None, an empty value, a value
EnvValues == {EnvNone, "", "set"}

\* st.session_state.metadata, read at line 231 and assigned nowhere in the
\* program: the attribute is absent, or holds what an earlier
\* get_table_metadata gave (None, an empty map, a map with the target table)
SessionValues ==
    { [kind |-> "absent", val |-> <<>>],
      [kind |-> "none", val |-> <<>>],
      [kind |-> "map", val |-> EmptyMap],
      [kind |-> "map",
       val |-> BuildMetadata(<<[Name |-> "xtstock2025", hasStorageDescriptor |-> TRUE,
                                Columns |-> SampleColumns, hasDescription |-> FALSE]>>,
                             1, EmptyMap).map] }

\* cursor.description after execute: None when the statement produced no
\* result set, else one entry per column (only the names are used, line 184)
Descriptions ==
    { [isNone |-> TRUE, names |-> <<>>],
      [isNone |-> FALSE, names |-> <<"c1">>],
      [isNone |-> FALSE, names |-> <<"c1", "c2">>] }

\* what cursor.fetchall() may give
RowSets == { <<>>, << <<"1", "2">> >>, << <<"1", "2">>, <<"3", "4">> >> }

\* the params a direct caller may pass: None, an empty tuple, a tuple
ParamValues == {PyNone, <<>>, <<"p1">>}

Unset == [kind |-> "unset", val |-> <<>>]

(***************************************************************************)
(* Initial state: the module has been imported, nothing is running         *)
(***************************************************************************)
\* the variables of one top-level call, before it starts and after it ended
Clean ==
    /\ caller = "none"
    /\ execute_query = FALSE
    /\ metadata = Unset
    /\ response = Unset
    /\ sql_query = PyNone
    /\ query = PyNone
    /\ params = PyNone
    /\ conn = "none"
    /\ cursorOpen = FALSE
    /\ column_names = <<>>
    /\ results = <<>>
    /\ exc = <<>>
    /\ ret = Unset
    /\ trace = <<>>
    /\ ui = <<>>
    /\ catalog = <<>>

\* lines 21-29: the dict built at import from the process environment
ConnConfigs ==
    {c \in [server : EnvValues, database : EnvValues, uid : EnvValues, pwd : EnvValues] :
        Cardinality({k \in {"server", "database", "uid", "pwd"} : c[k] \in {EnvNone, ""}})
            <= MaxMissing}

Init ==
    /\ SQL_SERVER_CONN \in ConnConfigs
    /\ pc = "idle"
    /\ openConns = 0
    /\ Clean

(***************************************************************************)
(* main, lines 208-246                                                     *)
(***************************************************************************)
\* lines 208-229: one rerun of the page with the widgets' values; the
\* pipeline runs only when the button was pressed and the question is not empty
main_submit(user_input, submit_button, toggle) ==
    /\ pc = "idle"
    /\ execute_query' = toggle
    /\ pc' = IF submit_button /\ Truthy(user_input) THEN "main_session" ELSE "main_done"
    /\ ret' = IF submit_button /\ Truthy(user_input) THEN ret ELSE [kind |-> "none", val |-> <<>>]
    /\ UNCHANGED <<SQL_SERVER_CONN, caller, metadata, response, sql_query, query, params,
                   conn, openConns, cursorOpen, column_names, results, exc, trace, ui,
                   catalog>>

\* line 231, the argument st.session_state.metadata: an absent attribute
\* raises AttributeError, which main does not catch; otherwise
\* generate_sql_query is entered with the value
main_session ==
    /\ pc = "main_session"
    /\ \E m \in SessionValues :
        IF m.kind = "absent"
        THEN /\ exc' = <<"AttributeError: st.session_state has no attribute metadata">>
             /\ ret' = [kind |-> "raised", val |-> exc']
             /\ pc' = "main_raised"
             /\ UNCHANGED <<metadata, trace>>
        ELSE /\ metadata' = m
             /\ trace' = Append(trace, Ev("generate_sql_query", TRUE))
             /\ pc' = "generate_invoke"
             /\ UNCHANGED <<exc, ret>>
    /\ UNCHANGED <<SQL_SERVER_CONN, caller, execute_query, response, sql_query, query,
                   params, conn, openConns, cursorOpen, column_names, results, ui, catalog>>

(***************************************************************************)
(* generate_sql_query, lines 59-140                                        *)
(***************************************************************************)
\* what the model may answer: a body without content[0].text, or a completion
Responses ==
    {[kind |-> "unparsable", val |-> <<>>]} \cup
    {[kind |-> "completion", val |-> c] : c \in Completions}

\* lines 121-131: bedrock.invoke_model raises or answers
generate_invoke ==
    /\ pc = "generate_invoke"
    /\ \E ok \in BOOLEAN :
        /\ trace' = Append(trace, Ev("invoke_model", ok))
        /\ IF ok
           THEN /\ \E r \in Responses : response' = r
                /\ pc' = "generate_parse"
                /\ exc' = exc
           ELSE /\ exc' = <<"invoke_model failed">>
                /\ pc' = "generate_except"
                /\ response' = response
    /\ UNCHANGED <<SQL_SERVER_CONN, caller, execute_query, metadata, sql_query, query,
                   params, conn, openConns, cursorOpen, column_names, results, ret, ui,
                   catalog>>

\* line 134: what is returned for a completion text
CompletionText(text) == Strip(text)

\* lines 133-134: parse the body and return the first completion's text
generate_parse ==
    /\ pc = "generate_parse"
    /\ trace' = Append(trace, Ev("parse_response", response.kind = "completion"))
    /\ IF response.kind = "completion"
       THEN /\ sql_query' = CompletionText(response.val)
            /\ pc' = "main_check"
            /\ response' = Unset
            /\ exc' = exc
       ELSE /\ exc' = <<"response has no content[0].text">>
            /\ pc' = "generate_except"
            /\ UNCHANGED <<sql_query, response>>
    /\ UNCHANGED <<SQL_SERVER_CONN, caller, execute_query, metadata, query, params, conn,
                   openConns, cursorOpen, column_names, results, ret, ui, catalog>>

\* lines 136-140: the handler shows the error and the traceback, returns None
generate_except ==
    /\ pc = "generate_except"
    /\ ui' = ui \o <<"error", "error_traceback">>
    /\ sql_query' = PyNone
    /\ exc' = <<>>
    /\ response' = Unset
    /\ pc' = "main_check"
    /\ UNCHANGED <<SQL_SERVER_CONN, caller, execute_query, metadata, query, params, conn,
                   openConns, cursorOpen, column_names, results, ret, trace, catalog>>

\* main without the test of line 233: whatever generate_sql_query returned is
\* shown and, with the checkbox set, executed
main_check_unguarded ==
    /\ pc = "main_check"
    /\ ui' = ui \o <<"subheader_sql", "code">>
    /\ IF execute_query
       THEN /\ caller' = "main"
            /\ query' = sql_query
            /\ params' = PyNone
            /\ trace' = Append(trace, Ev("execute_sql_query", TRUE))
            /\ pc' = "execute_validate"
            /\ ret' = ret
       ELSE /\ pc' = "main_done"
            /\ ret' = [kind |-> "none", val |-> <<>>]
            /\ UNCHANGED <<caller, query, params, trace>>
    /\ UNCHANGED <<SQL_SERVER_CONN, execute_query, metadata, response, sql_query, conn,
                   openConns, cursorOpen, column_names, results, exc, catalog>>

\* lines 233-239: show the SQL if there is any, and call execute_sql_query if
\* the checkbox is set
main_check ==
    /\ pc = "main_check"
    /\ IF Truthy(sql_query)
       THEN /\ ui' = ui \o <<"subheader_sql", "code">>
            /\ IF execute_query
               THEN /\ caller' = "main"
                    /\ query' = sql_query
                    /\ params' = PyNone
                    /\ trace' = Append(trace, Ev("execute_sql_query", TRUE))
                    /\ pc' = "execute_validate"
                    /\ ret' = ret
               ELSE /\ pc' = "main_done"
                    /\ ret' = [kind |-> "none", val |-> <<>>]
                    /\ UNCHANGED <<caller, query, params, trace>>
       ELSE /\ pc' = "main_done"
            /\ ret' = [kind |-> "none", val |-> <<>>]
            /\ UNCHANGED <<ui, caller, query, params, trace>>
    /\ UNCHANGED <<SQL_SERVER_CONN, execute_query, metadata, response, sql_query, conn,
                   openConns, cursorOpen, column_names, results, exc, catalog>>

\* lines 240-246: results is a list, never None, so the table is rendered
main_show ==
    /\ pc = "main_show"
    /\ ui' = IF ret.kind # "none" THEN ui \o <<"subheader_results", "dataframe">> ELSE ui
    /\ pc' = "main_done"
    /\ UNCHANGED <<SQL_SERVER_CONN, caller, execute_query, metadata, response, sql_query,
                   query, params, conn, openConns, cursorOpen, column_names, results, exc,
                   ret, trace, catalog>>

(***************************************************************************)
(* execute_sql_query, lines 142-206                                        *)
(***************************************************************************)
\* a caller other than main: execute_sql_query(query, params)
call_execute_sql_query(q, p) ==
    /\ pc = "idle"
    /\ caller' = "direct"
    /\ query' = q
    /\ params' = p
    /\ trace' = Append(trace, Ev("execute_sql_query", TRUE))
    /\ pc' = "execute_validate"
    /\ UNCHANGED <<SQL_SERVER_CONN, execute_query, metadata, response, sql_query, conn,
                   openConns, cursorOpen, column_names, results, exc, ret, ui, catalog>>

\* a connection parameter that all() counts as present
Present(v) == v # EnvNone /\ v # ""

\* the validation testing only for None: an empty value passes
AllPresent_not_none(c) ==
    c.server # EnvNone /\ c.database # EnvNone /\ c.uid # EnvNone /\ c.pwd # EnvNone

\* line 164: all([server, database, username, password])
AllPresent(c) == Present(c.server) /\ Present(c.database) /\ Present(c.uid) /\ Present(c.pwd)

\* lines 156-165: read the four parameters; ValueError when one is missing
execute_validate ==
    /\ pc = "execute_validate"
    /\ IF AllPresent(SQL_SERVER_CONN)
       THEN /\ pc' = "execute_connect"
            /\ exc' = exc
       ELSE /\ exc' = <<"Missing database connection parameters">>
            /\ pc' = "execute_outer"
    /\ UNCHANGED <<SQL_SERVER_CONN, caller, execute_query, metadata, response, sql_query,
                   query, params, conn, openConns, cursorOpen, column_names, results, ret,
                   trace, ui, catalog>>

\* lines 168-173: pymssql.connect opens a connection or raises
execute_connect ==
    /\ pc = "execute_connect"
    /\ \E ok \in BOOLEAN :
        /\ trace' = Append(trace, Ev("connect", ok))
        /\ IF ok
           THEN /\ conn' = "open"
                /\ openConns' = openConns + 1
                /\ pc' = "execute_cursor"
                /\ exc' = exc
           ELSE /\ exc' = <<"connect failed">>
                /\ pc' = "execute_outer"
                /\ UNCHANGED <<conn, openConns>>
    /\ UNCHANGED <<SQL_SERVER_CONN, caller, execute_query, metadata, response, sql_query,
                   query, params, cursorOpen, column_names, results, ret, ui, catalog>>

\* line 176: conn.cursor() and the entry of the with-block
execute_cursor ==
    /\ pc = "execute_cursor"
    /\ \E ok \in BOOLEAN :
        /\ trace' = Append(trace, Ev("cursor", ok))
        /\ IF ok
           THEN /\ cursorOpen' = TRUE
                /\ pc' = "execute_execute"
                /\ exc' = exc
           ELSE /\ exc' = <<"cursor failed">>
                /\ pc' = "execute_except"
                /\ cursorOpen' = cursorOpen
    /\ UNCHANGED <<SQL_SERVER_CONN, caller, execute_query, metadata, response, sql_query,
                   query, params, conn, openConns, column_names, results, ret, ui, catalog>>

\* lines 178-181: cursor.execute, with the params when they are truthy
execute_execute ==
    /\ pc = "execute_execute"
    /\ \E ok \in BOOLEAN :
        /\ trace' = Append(trace, Ev(IF Truthy(params) THEN "execute_with_params" ELSE "execute", ok))
        /\ IF ok
           THEN /\ pc' = "execute_description"
                /\ exc' = exc
           ELSE /\ exc' = <<"execute failed">>
                /\ pc' = "execute_with_exit"
    /\ UNCHANGED <<SQL_SERVER_CONN, caller, execute_query, metadata, response, sql_query,
                   query, params, conn, openConns, cursorOpen, column_names, results, ret,
                   ui, catalog>>

\* line 184: iterate cursor.description; iterating None raises TypeError
execute_description ==
    /\ pc = "execute_description"
    /\ \E d \in Descriptions :
        /\ trace' = Append(trace, Ev("description", ~d.isNone))
        /\ IF d.isNone
           THEN /\ exc' = <<"'NoneType' object is not iterable">>
                /\ pc' = "execute_with_exit"
                /\ column_names' = column_names
           ELSE /\ column_names' = d.names
                /\ pc' = "execute_fetchall"
                /\ exc' = exc
    /\ UNCHANGED <<SQL_SERVER_CONN, caller, execute_query, metadata, response, sql_query,
                   query, params, conn, openConns, cursorOpen, results, ret, ui, catalog>>

\* line 190: dict(zip(column_names, row))
RowDict(names, row) ==
    LET n == IF Len(names) < Len(row) THEN Len(names) ELSE Len(row)
    IN  [k \in {names[i] : i \in 1..n} |-> row[CHOOSE i \in 1..n : names[i] = k]]

\* lines 187-190: cursor.fetchall() raises or gives rows, which become dicts
execute_fetchall ==
    /\ pc = "execute_fetchall"
    /\ \E ok \in BOOLEAN :
        /\ trace' = Append(trace, Ev("fetchall", ok))
        /\ IF ok
           THEN /\ \E rows \in RowSets :
                    results' = [i \in 1..Len(rows) |-> RowDict(column_names, rows[i])]
                /\ pc' = "execute_commit"
                /\ exc' = exc
           ELSE /\ exc' = <<"fetchall failed">>
                /\ pc' = "execute_with_exit"
                /\ results' = results
    /\ UNCHANGED <<SQL_SERVER_CONN, caller, execute_query, metadata, response, sql_query,
                   query, params, conn, openConns, cursorOpen, column_names, ret, ui,
                   catalog>>

\* line 193: query.lower().strip().startswith(('insert', 'update', 'delete'))
IsMutation(q) ==
    \E p \in { <<"i","n","s","e","r","t">>, <<"u","p","d","a","t","e">>,
               <<"d","e","l","e","t","e">> } : StartsWith(Strip(Lower(q)), p)

\* lines 192-196: commit a mutation, then return the rows
execute_commit ==
    /\ pc = "execute_commit"
    /\ IF IsMutation(query)
       THEN \E ok \in BOOLEAN :
            /\ trace' = Append(trace, Ev("commit", ok))
            /\ exc' = IF ok THEN exc ELSE <<"commit failed">>
       ELSE UNCHANGED <<trace, exc>>
    /\ pc' = "execute_with_exit"
    /\ UNCHANGED <<SQL_SERVER_CONN, caller, execute_query, metadata, response, sql_query,
                   query, params, conn, openConns, cursorOpen, column_names, results, ret,
                   ui, catalog>>

\* line 176, leaving the with-block (by return or by exception): the cursor
\* is closed, then the handler of line 198 or the finally of line 202 runs
execute_with_exit ==
    /\ pc = "execute_with_exit"
    /\ trace' = Append(trace, Ev("cursor.close", TRUE))
    /\ cursorOpen' = FALSE
    /\ pc' = IF exc # <<>> THEN "execute_except" ELSE "execute_finally"
    /\ UNCHANGED <<SQL_SERVER_CONN, caller, execute_query, metadata, response, sql_query,
                   query, params, conn, openConns, column_names, results, exc, ret, ui,
                   catalog>>

\* the handler without its rollback: it only raises the wrapped error
execute_except_no_rollback ==
    /\ pc = "execute_except"
    /\ exc' = <<"Error executing query">> \o exc
    /\ pc' = "execute_finally"
    /\ UNCHANGED <<SQL_SERVER_CONN, caller, execute_query, metadata, response, sql_query,
                   query, params, conn, openConns, cursorOpen, column_names, results, ret,
                   trace, ui, catalog>>

\* lines 198-200: roll back, then raise the wrapped error; an error of
\* rollback itself takes its place
execute_except ==
    /\ pc = "execute_except"
    /\ \E ok \in BOOLEAN :
        /\ trace' = Append(trace, Ev("rollback", ok))
        /\ exc' = IF ok THEN <<"Error executing query">> \o exc ELSE <<"rollback failed">>
    /\ pc' = "execute_finally"
    /\ UNCHANGED <<SQL_SERVER_CONN, caller, execute_query, metadata, response, sql_query,
                   query, params, conn, openConns, cursorOpen, column_names, results, ret,
                   ui, catalog>>

\* the close placed after the try instead of in its finally: it runs only
\* when nothing was raised
execute_finally_success_only ==
    /\ pc = "execute_finally"
    /\ IF exc = <<>>
       THEN /\ trace' = Append(trace, Ev("close", TRUE))
            /\ conn' = "closed"
            /\ openConns' = openConns - 1
       ELSE UNCHANGED <<trace, conn, openConns>>
    /\ pc' = IF exc # <<>> THEN "execute_outer" ELSE "execute_return"
    /\ UNCHANGED <<SQL_SERVER_CONN, caller, execute_query, metadata, response, sql_query,
                   query, params, cursorOpen, column_names, results, exc, ret, ui, catalog>>

\* lines 202-203: conn.close(), on the way out of the inner try
execute_finally ==
    /\ pc = "execute_finally"
    /\ trace' = Append(trace, Ev("close", TRUE))
    /\ conn' = "closed"
    /\ openConns' = openConns - 1
    /\ pc' = IF exc # <<>> THEN "execute_outer" ELSE "execute_return"
    /\ UNCHANGED <<SQL_SERVER_CONN, caller, execute_query, metadata, response, sql_query,
                   query, params, cursorOpen, column_names, results, exc, ret, ui, catalog>>

\* the outer handler swallowing the error: an empty result is returned
execute_outer_swallow ==
    /\ pc = "execute_outer"
    /\ exc' = <<>>
    /\ ret' = [kind |-> "rows", val |-> <<>>]
    /\ pc' = IF caller = "main" THEN "main_show" ELSE "call_done"
    /\ UNCHANGED <<SQL_SERVER_CONN, caller, execute_query, metadata, response, sql_query,
                   query, params, conn, openConns, cursorOpen, column_names, results, trace,
                   ui, catalog>>

\* lines 205-206: every exception leaves wrapped as "Database connection
\* error"; in main nothing catches it
execute_outer ==
    /\ pc = "execute_outer"
    /\ exc' = <<"Database connection error">> \o exc
    /\ ret' = [kind |-> "raised", val |-> exc']
    /\ pc' = IF caller = "main" THEN "main_raised" ELSE "call_done"
    /\ UNCHANGED <<SQL_SERVER_CONN, caller, execute_query, metadata, response, sql_query,
                   query, params, conn, openConns, cursorOpen, column_names, results, trace,
                   ui, catalog>>

\* line 196: return results_with_columns
execute_return ==
    /\ pc = "execute_return"
    /\ ret' = [kind |-> "rows", val |-> results]
    /\ pc' = IF caller = "main" THEN "main_show" ELSE "call_done"
    /\ UNCHANGED <<SQL_SERVER_CONN, caller, execute_query, metadata, response, sql_query,
                   query, params, conn, openConns, cursorOpen, column_names, results, exc,
                   trace, ui, catalog>>

(***************************************************************************)
(* get_table_metadata, lines 31-57, called on its own                      *)
(***************************************************************************)
call_get_table_metadata ==
    /\ pc = "idle"
    /\ trace' = Append(trace, Ev("get_table_metadata", TRUE))
    /\ pc' = "metadata_get_tables"
    /\ UNCHANGED <<SQL_SERVER_CONN, caller, execute_query, metadata, response, sql_query,
                   query, params, conn, openConns, cursorOpen, column_names, results, exc,
                   ret, ui, catalog>>

\* lines 33-38 and 55-57: glue get_tables raises (error shown, None returned)
\* or answers with a TableList
metadata_get_tables ==
    /\ pc = "metadata_get_tables"
    /\ \E ok \in BOOLEAN :
        /\ trace' = Append(trace, Ev("get_tables", ok))
        /\ IF ok
           THEN /\ \E r \in TableLists : catalog' = r
                /\ pc' = "metadata_build"
                /\ UNCHANGED <<ui, ret>>
           ELSE /\ ui' = Append(ui, "error")
                /\ ret' = [kind |-> "none", val |-> <<>>]
                /\ pc' = "call_done"
                /\ catalog' = catalog
    /\ UNCHANGED <<SQL_SERVER_CONN, caller, execute_query, metadata, response, sql_query,
                   query, params, conn, openConns, cursorOpen, column_names, results, exc>>

\* lines 40-57: build the map; warn when it is empty and return it; an
\* exception of the loop is shown as an error and None is returned
metadata_build ==
    /\ pc = "metadata_build"
    /\ LET b == BuildMetadata(catalog, 1, EmptyMap)
       IN  IF b.raised
           THEN /\ ui' = Append(ui, "error")
                /\ ret' = [kind |-> "none", val |-> <<>>]
           ELSE /\ ui' = IF DOMAIN b.map = {} THEN Append(ui, "warning") ELSE ui
                /\ ret' = [kind |-> "map", val |-> b.map]
    /\ pc' = "call_done"
    /\ UNCHANGED <<SQL_SERVER_CONN, caller, execute_query, metadata, response, sql_query,
                   query, params, conn, openConns, cursorOpen, column_names, results, exc,
                   trace, catalog>>

(***************************************************************************)
(* The end of a top-level call                                             *)
(***************************************************************************)
\* the call has returned or raised; its locals and what the rerun rendered
\* are gone, the interpreter waits for the next call
finish ==
    /\ pc \in {"main_done", "main_raised", "call_done"}
    /\ pc' = "idle"
    /\ caller' = "none"
    /\ execute_query' = FALSE
    /\ metadata' = Unset
    /\ response' = Unset
    /\ sql_query' = PyNone
    /\ query' = PyNone
    /\ params' = PyNone
    /\ conn' = "none"
    /\ cursorOpen' = FALSE
    /\ column_names' = <<>>
    /\ results' = <<>>
    /\ exc' = <<>>
    /\ ret' = Unset
    /\ trace' = <<>>
    /\ ui' = <<>>
    /\ catalog' = <<>>
    /\ UNCHANGED <<SQL_SERVER_CONN, openConns>>

Next ==
    \/ \E user_input \in {<<>>, <<"q">>}, submit_button \in BOOLEAN, toggle \in BOOLEAN :
          main_submit(user_input, submit_button, toggle)
    \/ main_session
    \/ generate_invoke
    \/ generate_parse
    \/ generate_except
    \/ main_check
    \/ main_show
    \/ \E q \in Completions, p \in ParamValues : call_execute_sql_query(q, p)
    \/ execute_validate
    \/ execute_connect
    \/ execute_cursor
    \/ execute_execute
    \/ execute_description
    \/ execute_fetchall
    \/ execute_commit
    \/ execute_with_exit
    \/ execute_except
    \/ execute_finally
    \/ execute_outer
    \/ execute_return
    \/ call_get_table_metadata
    \/ metadata_get_tables
    \/ metadata_build
    \/ finish

Spec == Init /\ [][Next]_vars

(***************************************************************************)
(* Vocabulary of the properties                                            *)
(***************************************************************************)
\* the calls made on the database driver, the connection and the cursor
DbOps == {"connect", "cursor", "execute", "execute_with_params", "fetchall", "commit",
          "cursor.close", "rollback", "close"}

ExecutePcs ==
    {"execute_validate", "execute_connect", "execute_cursor", "execute_execute",
     "execute_description", "execute_fetchall", "execute_commit", "execute_with_exit",
     "execute_except", "execute_finally", "execute_outer", "execute_return"}

\* execute_sql_query was called in the current top-level call
ExecuteCalled == Count(trace, "execute_sql_query") = 1

\* that call of execute_sql_query has returned or raised
ExecuteEnded == ExecuteCalled /\ pc \notin ExecutePcs

\* op was invoked and raised
Failed(op) == \E i \in 1..Len(trace) : trace[i].op = op /\ ~trace[i].ok

\* op was invoked and did not raise
Succeeded(op) == \E i \in 1..Len(trace) : trace[i].op = op /\ trace[i].ok

\* the execution of the statement by the database failed
ExecutionFailed == Failed("execute") \/ Failed("execute_with_params")

\* some call on the database raised
DatabaseRaised == \E i \in 1..Len(trace) : trace[i].op \in DbOps /\ ~trace[i].ok

\* one of the four connection parameters is missing or empty
SomeParameterMissing ==
    \E k \in {"server", "database", "uid", "pwd"} : SQL_SERVER_CONN[k] \in {EnvNone, ""}

\* the current call ends by raising an error wrapped by line 206
RaisesWrapped ==
    /\ ret.kind = "raised"
    /\ Len(ret.val) >= 2
    /\ Head(ret.val) = "Database connection error"

\* the model call raised, or its response could not be parsed
GenerationFailed == Failed("invoke_model") \/ Failed("parse_response")

\* the rerun of main is over
SubmissionEnded == pc \in {"main_done", "main_raised"}

(***************************************************************************)
(* C1                                                                      *)
(***************************************************************************)
\* C1: when execute_sql_query has ended, the statement begins (ignoring case
\* and surrounding whitespace) with insert, update or delete, and it was
\* executed without any call on the database raising, then commit was invoked
\* exactly once and rollback was not invoked.
C1_MutationCommitsOnce ==
    (ExecuteEnded /\ IsMutation(query) /\ (Succeeded("execute") \/ Succeeded("execute_with_params"))
        /\ ~DatabaseRaised)
    => (Count(trace, "commit") = 1 /\ Count(trace, "rollback") = 0)

(***************************************************************************)
(* C2                                                                      *)
(***************************************************************************)
\* C2: when execute_sql_query has ended after a connection was opened and the
\* execution of the statement failed, rollback was invoked exactly once, the
\* connection was closed exactly once, commit was not invoked, and the call
\* raised a wrapped error instead of returning rows.
C2_FailureRollsBackClosesRaises ==
    (ExecuteEnded /\ Succeeded("connect") /\ ExecutionFailed)
    => /\ Count(trace, "rollback") = 1
       /\ Count(trace, "close") = 1
       /\ Count(trace, "commit") = 0
       /\ RaisesWrapped
       /\ pc \in {"main_raised", "call_done"}
       /\ "dataframe" \notin {ui[i] : i \in 1..Len(ui)}

\* C2 witness: a call whose connection was opened and whose statement failed has ended
C2_Witness ==
    /\ ExecuteEnded /\ Succeeded("connect") /\ ExecutionFailed
    /\ ret.kind = "raised"

(***************************************************************************)
(* C3                                                                      *)
(***************************************************************************)
\* C3: a connection opened by execute_sql_query is closed exactly once before
\* the call returns or raises, whatever the path; nothing is invoked on the
\* connection or its cursor after the close; outside a call of
\* execute_sql_query no connection is open.
C3_ConnectionClosedOnEveryPath ==
    /\ ExecuteEnded => /\ Count(trace, "close") = Count(trace, "connect") - (IF Failed("connect") THEN 1 ELSE 0)
                       /\ Succeeded("connect") => Count(trace, "close") = 1
                       /\ conn # "open"
    /\ \A i \in 1..Len(trace) : \A j \in 1..Len(trace) :
          (i < j /\ trace[i].op = "close") => trace[j].op \notin DbOps
    /\ pc \notin ExecutePcs => openConns = 0
    /\ openConns = (IF conn = "open" THEN 1 ELSE 0)

\* C3 witness: a call in which rollback itself raised has ended, the connection closed once
C3_Witness ==
    /\ ExecuteEnded /\ Succeeded("connect") /\ Failed("rollback")
    /\ Count(trace, "close") = 1

(***************************************************************************)
(* C4                                                                      *)
(***************************************************************************)
\* C4: a submission that ran with an empty metadata map has shown a warning
\* and has not attempted the model invocation.
C4_EmptyMetadataBlocksGeneration ==
    (SubmissionEnded /\ metadata.kind = "map" /\ DOMAIN metadata.val = {})
    => /\ Count(trace, "invoke_model") = 0
       /\ "warning" \in {ui[i] : i \in 1..Len(ui)}

(***************************************************************************)
(* C5                                                                      *)
(***************************************************************************)
\* C5: within a submission the model invocation comes after a completed
\* metadata fetch, execute_sql_query is called only after the generation call
\* has completed, and only when the checkbox is set.
C5_StagesInOrder ==
    /\ \A i \in Positions(trace, "invoke_model") :
          \E j \in 1..(i - 1) : trace[j].op = "get_tables" /\ trace[j].ok
    /\ caller = "main" =>
          /\ \A i \in Positions(trace, "execute_sql_query") :
                \E j \in 1..(i - 1) : trace[j].op = "parse_response" /\ trace[j].ok
          /\ execute_query

(***************************************************************************)
(* C6                                                                      *)
(***************************************************************************)
\* C6: once the handler of a failed generation has run, the error and the
\* traceback are shown, generate_sql_query has returned None without raising,
\* no SQL is displayed, execute_sql_query is not called and no connection is
\* opened, for the rest of the submission.
C6_GenerationFailureSkipsExecution ==
    (GenerationFailed /\ pc # "generate_except")
    => /\ sql_query = PyNone
       /\ exc = <<>>
       /\ ret.kind # "raised"
       /\ pc \in {"main_check", "main_done"}
       /\ {"error", "error_traceback"} \subseteq {ui[i] : i \in 1..Len(ui)}
       /\ "code" \notin {ui[i] : i \in 1..Len(ui)}
       /\ "dataframe" \notin {ui[i] : i \in 1..Len(ui)}
       /\ ~ExecuteCalled
       /\ Count(trace, "connect") = 0
       /\ conn = "none" /\ openConns = 0

\* C6 witness: a submission whose response could not be parsed has ended
C6_Witness ==
    /\ Failed("parse_response")
    /\ pc = "main_done"
    /\ execute_query

(***************************************************************************)
(* C7                                                                      *)
(***************************************************************************)
\* the names of the tables of the catalog response
CatalogNames == {catalog[i].Name : i \in 1..Len(catalog)}

C8_TrimmedAndUnfenced ==
    (Succeeded("parse_response") /\ sql_query # PyNone)
    => /\ Strip(sql_query) = sql_query
       /\ ~HasFencing(sql_query)

(***************************************************************************)
(* C9                                                                      *)
(***************************************************************************)
\* something made the call of execute_sql_query fail: a missing parameter, a
\* call on the database that raised, or a statement without a result set
ExecuteFailure ==
    /\ ExecuteEnded
    /\ SomeParameterMissing \/ DatabaseRaised \/ Failed("description")

\* C9: when execute_sql_query failed in a submission, the wrapped exception
\* leaves main uncaught, no result table is rendered and no connection stays
\* open; between top-level calls the program is in its clean state.
C9_ExecuteFailureLeavesMain ==
    /\ (caller = "main" /\ ExecuteFailure)
       => /\ pc = "main_raised"
          /\ RaisesWrapped
          /\ exc = ret.val
          /\ "dataframe" \notin {ui[i] : i \in 1..Len(ui)}
          /\ "subheader_results" \notin {ui[i] : i \in 1..Len(ui)}
          /\ conn # "open"
          /\ openConns = 0
    /\ pc = "idle" => (Clean /\ openConns = 0)

\* C9 witness: a submission whose statement failed in the database has ended by raising
C9_Witness ==
    /\ caller = "main" /\ ExecuteEnded /\ ExecutionFailed
    /\ pc = "main_raised"

(***************************************************************************)
(* C10                                                                     *)
(***************************************************************************)
\* C10: with a connection parameter missing or empty, a call of
\* execute_sql_query makes no call on the database at all, and ends by
\* raising the wrapped error about the missing parameters.
C10_MissingParameterNeverConnects ==
    (ExecuteCalled /\ SomeParameterMissing)
    => /\ \A i \in 1..Len(trace) : trace[i].op \notin DbOps
       /\ conn = "none" /\ openConns = 0
       /\ ExecuteEnded =>
            /\ ret.kind = "raised"
            /\ ret.val = <<"Database connection error", "Missing database connection parameters">>

\* C10 witness: a call made with an empty password has ended by raising
C10_Witness ==
    /\ ExecuteEnded
    /\ SQL_SERVER_CONN.pwd = ""
    /\ ret.kind = "raised"

====
